---- MODULE Spec2Model ----
(***************************************************************************)
(* Buds end-to-end-encrypted envelope: the recipient flow of               *)
(* SimulatedDevice.decrypt_message (test_e2ee_single_device.py), the       *)
(* library primitives it calls, and the sender that produces the envelope. *)
(*                                                                         *)
(* Byte strings are sequences of integers 0..255.  The library primitives  *)
(* (X25519, HKDF, AES-GCM, SHA-256, Ed25519) are computed by small         *)
(* algebraic stand-ins that keep the structure the code relies on: the     *)
(* lengths the library checks, the exceptions it raises and the order in   *)
(* which it raises them, Diffie-Hellman commutativity, the masked top bit  *)
(* of an X25519 public key, and a polynomial authentication tag.           *)
(***************************************************************************)
EXTENDS Integers, Sequences, FiniteSets, Bags, TLC

(***************************************************************************)
(* Bounds of the model.                                                    *)
(***************************************************************************)
\* longest plaintext the sender encrypts
MaxPlainLen == 1
\* number of changes the relay or an attacker makes to an envelope in flight
MaxTamper == 1

(***************************************************************************)
(* Byte-string helpers (Python slicing, 0-based and clipped).              *)
(***************************************************************************)
Min(a, b) == IF a < b THEN a ELSE b

Max(a, b) == IF a < b THEN b ELSE a

\* s[a:b]
Slice(s, a, b) == SubSeq(s, a + 1, Min(b, Len(s)))

\* s[a:]
SliceFrom(s, a) == SubSeq(s, a + 1, Len(s))

\* bytes([v] * n)
Fill(n, v) == [i \in 1..n |-> v]

RECURSIVE Pow(_, _, _)
\* b^e mod m
Pow(b, e, m) == IF e = 0 THEN 1 % m ELSE (b * Pow(b, e - 1, m)) % m

RECURSIVE WeightedSum(_, _)
\* sum of i * s[i] for i in 1..n
WeightedSum(s, n) == IF n = 0 THEN 0 ELSE n * s[n] + WeightedSum(s, n - 1)

(***************************************************************************)
(* base64 (RFC 4648), as base64.b64encode / base64.b64decode compute it.   *)
(* A character is its 6-bit value 0..63; PadChar is "=".                   *)
(***************************************************************************)
PadChar == 64

b64encode(data) ==
    LET n == Len(data)
        byte(k) == IF k <= n THEN data[k] ELSE 0
        char(i) ==
            LET g == (i - 1) \div 4
                j == (i - 1) % 4
                b1 == byte(3 * g + 1)
                b2 == byte(3 * g + 2)
                b3 == byte(3 * g + 3)
            IN  CASE j = 0 -> b1 \div 4
                  [] j = 1 -> (b1 % 4) * 16 + b2 \div 16
                  [] j = 2 -> IF 3 * g + 2 > n THEN PadChar
                              ELSE (b2 % 16) * 4 + b3 \div 64
                  [] OTHER -> IF 3 * g + 3 > n THEN PadChar ELSE b3 % 64
    IN  [i \in 1..(4 * ((n + 2) \div 3)) |-> char(i)]

\* number of trailing "=" of a base64 string (at most 2 are meaningful)
PadCount(str) ==
    LET n == Len(str)
    IN  IF n >= 2 /\ str[n] = PadChar /\ str[n - 1] = PadChar THEN 2
        ELSE IF n >= 1 /\ str[n] = PadChar THEN 1
        ELSE 0

\* b64decode raises binascii.Error ("Incorrect padding") on such a string
b64BadPadding(str) == Len(str) % 4 # 0

b64decode(str) ==
    LET n == 3 * (Len(str) \div 4) - PadCount(str)
        sext(k) == IF str[k] = PadChar THEN 0 ELSE str[k]
        byte(i) ==
            LET g == (i - 1) \div 3
                j == (i - 1) % 3
                c1 == sext(4 * g + 1)
                c2 == sext(4 * g + 2)
                c3 == sext(4 * g + 3)
                c4 == sext(4 * g + 4)
            IN  CASE j = 0 -> c1 * 4 + c2 \div 16
                  [] j = 1 -> (c2 % 16) * 16 + c3 \div 4
                  [] OTHER -> (c3 % 4) * 64 + c4
    IN  [i \in 1..Max(n, 0) |-> byte(i)]

(***************************************************************************)
(* Layout constants of the code.                                           *)
(***************************************************************************)
\* wrapped_key[:32]: the sender's ephemeral X25519 public key
EphPubLen == 32
\* wrapped_key[32:44] is the key-wrap nonce, wrapped_key[44:] ciphertext||tag
WrapNonceEnd == 44
\* encrypted_payload[:12] is the payload nonce
PayloadNonceLen == 12
\* len(signature_bytes) != 64
SignatureLen == 64
\* AES-GCM authentication tag, in bytes
TagLen == 16
\* HKDF(length=32): the KEK, and the per-message AES-256 key
KeyLen == 32

(***************************************************************************)
(* X25519 (cryptography.hazmat.primitives.asymmetric.x25519), over the     *)
(* multiplicative group modulo a small prime.  As in RFC 7748 a public key *)
(* is the little-endian encoding of a field element, the top bit of its    *)
(* last byte is ignored when it is read, and an all-zero shared secret is  *)
(* refused with ValueError.                                                *)
(***************************************************************************)
CurveP == 23

BasePoint == 5

\* public_bytes_raw(): 32 bytes, little-endian
EncodePoint(u) == [i \in 1..EphPubLen |-> IF i = 1 THEN u ELSE 0]

RECURSIVE LittleEndianMod(_, _, _)
\* the little-endian integer of the bytes data[k..EphPubLen], the top bit of
\* the last byte masked (RFC 7748), mod m
LittleEndianMod(data, k, m) ==
    IF k > EphPubLen THEN 0
    ELSE LET b == IF k = EphPubLen THEN data[k] % 128 ELSE data[k]
         IN  (b + 256 * LittleEndianMod(data, k + 1, m)) % m

\* X25519PublicKey.from_public_bytes raises ValueError unless the length is 32
x25519_bad_length(data) == Len(data) # EphPubLen

DecodePoint(data) == LittleEndianMod(data, 1, CurveP)

\* X25519PrivateKey.public_key().public_bytes_raw()
x25519_public(priv) == EncodePoint(Pow(BasePoint, priv, CurveP))

\* X25519PrivateKey.exchange(peer); the result 0 stands for the all-zero
\* shared secret, on which exchange raises ValueError
x25519_exchange(priv, peer_bytes) ==
    CHOOSE secret \in {Pow(u, priv, CurveP) : u \in {DecodePoint(peer_bytes)}} : TRUE

(***************************************************************************)
(* HKDF(SHA256, length=32, salt=None, info=b"BudsE2EE-KeyWrap").derive     *)
(***************************************************************************)
hkdf_derive(shared_secret) ==
    [i \in 1..KeyLen |-> (shared_secret * 7 + i * 13 + 66) % 256]

(***************************************************************************)
(* AES-GCM (cryptography.hazmat.primitives.ciphers.aead.AESGCM): a stream  *)
(* cipher keyed by (key, nonce) and a polynomial tag over the ciphertext,  *)
(* masked by a value that depends on (key, nonce).                         *)
(***************************************************************************)
KeyNum(key) == WeightedSum(key, Len(key)) % 65521

NonceNum(nonce) == WeightedSum(nonce, Len(nonce)) % 251

\* the key stream of (key, nonce): its offset, and its j-th byte
KeyPad(key, nonce) == (KeyNum(key) * 17 + NonceNum(nonce) * 29 + 11) % 256

KeyStream(pad, j) == (pad + j * 37) % 256

GcmTag(key, nonce, ct) ==
    CHOOSE tag \in
        { [i \in 1..TagLen |->
              CASE i = 1 -> t % 256
                [] i = 2 -> t \div 256
                [] OTHER -> (t * i) % 256] :
            t \in {(KeyNum(key) * 101 + NonceNum(nonce) * 53
                    + WeightedSum(ct, Len(ct)) + 7 * Len(ct) + 1) % 65521} } :
        TRUE

\* AESGCM(key) raises ValueError unless the key has 128, 192 or 256 bits
aesgcm_bad_key(key) == Len(key) \notin {16, 24, 32}

\* AESGCM._check_params raises ValueError for such a nonce
aesgcm_bad_nonce(nonce) == Len(nonce) < 8 \/ Len(nonce) > 128

\* AESGCM(key).encrypt(nonce, pt, None): ciphertext || tag
aesgcm_encrypt(key, nonce, pt) ==
    CHOOSE out \in
        { LET ct == [j \in 1..Len(pt) |-> (pt[j] + KeyStream(pad, j)) % 256]
          IN  ct \o GcmTag(key, nonce, ct) :
            pad \in {KeyPad(key, nonce)} } :
        TRUE

\* AESGCM(key).decrypt(nonce, data, None) raises InvalidTag unless this holds
aesgcm_tag_ok(key, nonce, data) ==
    /\ Len(data) >= TagLen
    /\ LET ct  == Slice(data, 0, Len(data) - TagLen)
           tag == SliceFrom(data, Len(data) - TagLen)
       IN  GcmTag(key, nonce, ct) = tag

\* what AESGCM(key).decrypt(nonce, data, None) returns when the tag is right
aesgcm_decrypt(key, nonce, data) ==
    CHOOSE out \in
        { [j \in 1..(Len(data) - TagLen) |-> (data[j] - KeyStream(pad, j)) % 256] :
            pad \in {KeyPad(key, nonce)} } :
        TRUE

(***************************************************************************)
(* SHA-256 (hashlib.sha256(...).digest()): a 32-byte digest of a rolling   *)
(* polynomial of the input.                                                *)
(***************************************************************************)
RECURSIVE HashAcc(_, _)
HashAcc(data, n) ==
    IF n = 0 THEN 7 ELSE (HashAcc(data, n - 1) * 31 + data[n] + 1) % 65521

\* a digest that depends on the length of the input only
sha256_of_length(data) ==
    CHOOSE digest \in
        { [i \in 1..32 |->
              CASE i = 1 -> h % 256
                [] i = 2 -> h \div 256
                [] OTHER -> (h * i + i) % 256] :
            h \in {HashAcc(Fill(Len(data), 0), Len(data))} } :
        TRUE

sha256(data) ==
    CHOOSE digest \in
        { [i \in 1..32 |->
              CASE i = 1 -> h % 256
                [] i = 2 -> h \div 256
                [] OTHER -> (h * i + i) % 256] :
            h \in {HashAcc(data, Len(data))} } :
        TRUE

(***************************************************************************)
(* base64.b32encode(...).decode('ascii').lower().rstrip('=')               *)
(***************************************************************************)
Base32Alphabet ==
    << "a", "b", "c", "d", "e", "f", "g", "h", "i", "j", "k", "l", "m",
       "n", "o", "p", "q", "r", "s", "t", "u", "v", "w", "x", "y", "z",
       "2", "3", "4", "5", "6", "7" >>

b32encode_lower_nopad(data) ==
    LET n == Len(data)
        byte(k) == IF k <= n THEN data[k] ELSE 0
        char(i) ==
            LET o == 5 * (i - 1)
                k == o \div 8 + 1
                r == o % 8
                w == byte(k) * 256 + byte(k + 1)
            IN  Base32Alphabet[((w \div Pow(2, 11 - r, 65536)) % 32) + 1]
    IN  [i \in 1..((8 * n + 4) \div 5) |-> char(i)]

\* _compute_cid with the digest taken over none of the data
compute_cid_empty_digest(cbor_data) ==
    LET hash_bytes == sha256(Slice(cbor_data, 0, 0))
        multihash  == <<18, 32>> \o hash_bytes
    IN  CHOOSE cid \in
            { LET b32 == b32encode_lower_nopad(cid_bytes)
              IN  <<"b">> \o b32 :
                cid_bytes \in {<<1, 113>> \o multihash} } :
            TRUE

(***************************************************************************)
(* SimulatedDevice._compute_cid: CIDv1, dag-cbor, sha2-256, base32         *)
(***************************************************************************)
compute_cid(cbor_data) ==
    LET hash_bytes == sha256(cbor_data)
        multihash  == <<18, 32>> \o hash_bytes
    IN  CHOOSE cid \in
            { LET b32 == b32encode_lower_nopad(cid_bytes)
              IN  <<"b">> \o b32 :
                cid_bytes \in {<<1, 113>> \o multihash} } :
            TRUE

(***************************************************************************)
(* Ed25519 detached signatures, as the sender produces them and as a       *)
(* verifier holding the sender's public key would check them.              *)
(***************************************************************************)
ed25519_public(priv) == (priv * 3 + 1) % 251

ed25519_signature(public, content) ==
    [i \in 1..SignatureLen |->
        (public * 5 + HashAcc(content, Len(content)) * i + i) % 256]

ed25519_sign(priv, content) == ed25519_signature(ed25519_public(priv), content)

ed25519_verify(public, signature, content) ==
    signature = ed25519_signature(public, content)

(***************************************************************************)
(* Devices and the sender.                                                 *)
(***************************************************************************)
DeviceIds == {"devA", "devB", "devC"}

\* SimulatedDevice.__init__: identity and the two keypairs of each device
NewDevices ==
    [d \in DeviceIds |->
        [did             |-> "did:buds:owner",
         device_id       |-> d,
         x25519_private  |-> CASE d = "devA" -> 3 [] d = "devB" -> 7 [] OTHER -> 9,
         ed25519_private |-> CASE d = "devA" -> 2 [] d = "devB" -> 4 [] OTHER -> 6]]

\* the sending device (the iPhone) and its signature key
SenderDid == "did:buds:sender"

SenderDeviceId == "devS"

SenderEd25519Private == 11

\* the random draws of one send: message key, ephemeral scalar, nonces
Seeds == {1, 2}

MessageKey(seed) == [i \in 1..KeyLen |-> (seed * 41 + i * 3) % 256]

EphemeralPrivate(seed) == IF seed = 1 THEN 13 ELSE 17

FreshNonce(seed, n) == [i \in 1..PayloadNonceLen |-> (seed * 50 + n * 7 + i) % 256]

DeviceIndex(d) == CASE d = "devA" -> 1 [] d = "devB" -> 2 [] OTHER -> 3

\* the plaintexts (serialized CBOR) a sender may encrypt
Plaintexts == {Fill(n, 104) : n \in 0..MaxPlainLen}

\* the recipient lists a sender addresses
RecipientSets == {{"devA", "devB"}, {"devA"}}

\* the byte string the sender signs
SignedContent(plain) == plain

\* KeyAgreement.deriveKEK
deriveKEK(private, peer_public) == hkdf_derive(x25519_exchange(private, peer_public))

\* KeyWrapCodec.wrap: ephemeral public key || nonce || ciphertext || tag
wrap(message_key, kek, ephemeral_public, nonce) ==
    ephemeral_public \o nonce \o aesgcm_encrypt(kek, nonce, message_key)

\* PayloadCodec.encrypt: nonce || ciphertext || tag
encrypt(plain, message_key, nonce) ==
    nonce \o aesgcm_encrypt(message_key, nonce, plain)

\* EnvelopeAssembler, sender flow
sender_envelope(devs, plain, recipients, seed) ==
    LET message_key == MessageKey(seed)
        eph_private == EphemeralPrivate(seed)
        eph_public  == x25519_public(eph_private)
        wrapped(d)  ==
            wrap(message_key,
                 deriveKEK(eph_private, x25519_public(devs[d].x25519_private)),
                 eph_public,
                 FreshNonce(seed, DeviceIndex(d)))
    IN  [message_id        |-> "msg-1",
         receipt_cid       |-> compute_cid(plain),
         sender_did        |-> SenderDid,
         sender_device_id  |-> SenderDeviceId,
         encrypted_payload |-> b64encode(encrypt(plain, message_key, FreshNonce(seed, 0))),
         wrapped_keys      |-> [d \in recipients |-> b64encode(wrapped(d))],
         signature         |-> b64encode(ed25519_sign(SenderEd25519Private,
                                                      SignedContent(plain)))]

(***************************************************************************)
(* Exceptions: the class, the message and the line that raises.            *)
(***************************************************************************)
NoExc == [type |-> "", msg |-> "", line |-> 0]

Raise(type, msg, line) ==
    [exc |-> [type |-> type, msg |-> msg, line |-> line], value |-> <<>>]

Return(value) == [exc |-> NoExc, value |-> value]

\* dict.get(key): None is <<>>, a value v is <<v>>
DictGet(dict, key) == IF key \in DOMAIN dict THEN <<dict[key]>> ELSE <<>>

\* Python's truth value of dict.get's result: None and "" are false
Falsy(got) == got = <<>> \/ got[1] = <<>>

(***************************************************************************)
(* SimulatedDevice.decrypt_message, step by step.                          *)
(***************************************************************************)
\* lookup_wrapped_key that looks at every entry of wrapped_keys: an empty
\* entry of any device counts as the key missing
lookup_wrapped_key_any_entry(message, device_id) ==
    LET wrapped_key_b64 == DictGet(message.wrapped_keys, device_id)
    IN  IF \/ Falsy(wrapped_key_b64)
           \/ \E d \in DOMAIN message.wrapped_keys : message.wrapped_keys[d] = <<>>
        THEN Raise("Exception", "No wrapped key found for device", 131)
        ELSE Return(wrapped_key_b64[1])

\* Step 1, first half: look the device's wrapped key up
lookup_wrapped_key(message, device_id) ==
    LET wrapped_key_b64 == DictGet(message.wrapped_keys, device_id)
    IN  IF Falsy(wrapped_key_b64)
        THEN Raise("Exception", "No wrapped key found for device", 131)
        ELSE Return(wrapped_key_b64[1])

\* lines 144-157, from the shared secret on
unwrap_with_secret(shared_secret, nonce, ciphertext_tag) ==
    LET kek == hkdf_derive(shared_secret)
    IN  IF shared_secret = 0
        THEN Raise("ValueError", "Error computing shared key.", 144)
        ELSE IF aesgcm_bad_nonce(nonce)
        THEN Raise("ValueError", "Nonce must be between 8 and 128 bytes", 156)
        ELSE IF ~aesgcm_tag_ok(kek, nonce, ciphertext_tag)
        THEN Raise("InvalidTag", "", 156)
        ELSE Return(aesgcm_decrypt(kek, nonce, ciphertext_tag))

\* lines 142-157, from the three fields of the wrapped key on
unwrap_fields(x25519_private, sender_ephemeral_pubkey_bytes, nonce, ciphertext_tag) ==
    IF x25519_bad_length(sender_ephemeral_pubkey_bytes)
    THEN Raise("ValueError", "An X25519 public key is 32 bytes long", 143)
    ELSE CHOOSE out \in
            { unwrap_with_secret(shared_secret, nonce, ciphertext_tag) :
                shared_secret \in
                    {x25519_exchange(x25519_private, sender_ephemeral_pubkey_bytes)} } :
            TRUE

\* unwrap_key with the nonce taken one byte short (wrapped_key[32:43])
unwrap_key_short_nonce(x25519_private, wrapped_key_b64) ==
    IF b64BadPadding(wrapped_key_b64)
    THEN Raise("binascii.Error", "Incorrect padding", 133)
    ELSE
    LET wrapped_key == b64decode(wrapped_key_b64)
    IN  CHOOSE out \in
            { unwrap_fields(x25519_private, sender_ephemeral_pubkey_bytes,
                            nonce, ciphertext_tag) :
                sender_ephemeral_pubkey_bytes \in {Slice(wrapped_key, 0, EphPubLen)},
                nonce \in {Slice(wrapped_key, EphPubLen, WrapNonceEnd - 1)},
                ciphertext_tag \in {SliceFrom(wrapped_key, WrapNonceEnd)} } :
            TRUE

\* Step 1, second half: unwrap the AES key using X25519.  (A value is bound
\* through a one-element set where it is used many times over.)
unwrap_key(x25519_private, wrapped_key_b64) ==
    IF b64BadPadding(wrapped_key_b64)
    THEN Raise("binascii.Error", "Incorrect padding", 133)
    ELSE
    LET wrapped_key == b64decode(wrapped_key_b64)
    IN  CHOOSE out \in
            { unwrap_fields(x25519_private, sender_ephemeral_pubkey_bytes,
                            nonce, ciphertext_tag) :
                sender_ephemeral_pubkey_bytes \in {Slice(wrapped_key, 0, EphPubLen)},
                nonce \in {Slice(wrapped_key, EphPubLen, WrapNonceEnd)},
                ciphertext_tag \in {SliceFrom(wrapped_key, WrapNonceEnd)} } :
            TRUE

\* lines 164-166, from the two fields of the encrypted payload on
decrypt_fields(aes_key, payload_nonce, payload_ciphertext_tag) ==
    IF aesgcm_bad_key(aes_key)
    THEN Raise("ValueError", "AESGCM key must be 128, 192, or 256 bits.", 164)
    ELSE IF aesgcm_bad_nonce(payload_nonce)
    THEN Raise("ValueError", "Nonce must be between 8 and 128 bytes", 165)
    ELSE IF ~aesgcm_tag_ok(aes_key, payload_nonce, payload_ciphertext_tag)
    THEN Raise("InvalidTag", "", 165)
    ELSE Return(aesgcm_decrypt(aes_key, payload_nonce, payload_ciphertext_tag))

\* decrypt_payload with the ciphertext taken from the wrong offset
\* (encrypted_payload[11:])
decrypt_payload_shifted(aes_key, encrypted_payload_b64) ==
    IF b64BadPadding(encrypted_payload_b64)
    THEN Raise("binascii.Error", "Incorrect padding", 160)
    ELSE
    LET encrypted_payload == b64decode(encrypted_payload_b64)
    IN  CHOOSE out \in
            { decrypt_fields(aes_key, payload_nonce, payload_ciphertext_tag) :
                payload_nonce \in {Slice(encrypted_payload, 0, PayloadNonceLen)},
                payload_ciphertext_tag \in
                    {SliceFrom(encrypted_payload, PayloadNonceLen - 1)} } :
            TRUE

\* Step 2: decrypt the payload with AES-256-GCM
decrypt_payload(aes_key, encrypted_payload_b64) ==
    IF b64BadPadding(encrypted_payload_b64)
    THEN Raise("binascii.Error", "Incorrect padding", 160)
    ELSE
    LET encrypted_payload == b64decode(encrypted_payload_b64)
    IN  CHOOSE out \in
            { decrypt_fields(aes_key, payload_nonce, payload_ciphertext_tag) :
                payload_nonce \in {Slice(encrypted_payload, 0, PayloadNonceLen)},
                payload_ciphertext_tag \in
                    {SliceFrom(encrypted_payload, PayloadNonceLen)} } :
            TRUE

\* verify_cid with the comparison left out
verify_cid_unchecked(raw_cbor, claimed_cid) == Return(compute_cid(raw_cbor))

\* Step 3: verify CID integrity
verify_cid(raw_cbor, claimed_cid) ==
    LET computed_cid == compute_cid(raw_cbor)
    IN  IF computed_cid # claimed_cid
        THEN Raise("Exception", "CID integrity check failed - tampering detected!", 176)
        ELSE Return(computed_cid)

\* Step 4: decode the signature and validate its format
verify_signature(signature_b64) ==
    IF b64BadPadding(signature_b64)
    THEN Raise("binascii.Error", "Incorrect padding", 183)
    ELSE
    LET signature_bytes == b64decode(signature_b64)
    IN  IF Len(signature_bytes) # SignatureLen
        THEN Raise("Exception", "Invalid signature length", 187)
        ELSE Return(signature_bytes)

(***************************************************************************)
(* State.                                                                  *)
(***************************************************************************)
VARIABLES
    devices,          \* device_id -> the SimulatedDevice's fields
    sent,             \* what the sender sent: plain, recipients, seed, envelope
    envelope,         \* the message in flight, as the relay hands it over
    tampers,          \* number of changes made to the envelope in flight
    dev,              \* the device whose decrypt_message runs
    pc,               \* state of the recipient flow
    wrapped_key_b64,  \* local of decrypt_message
    aes_key,          \* local of decrypt_message
    raw_cbor,         \* local of decrypt_message
    computed_cid,     \* local of decrypt_message
    result,           \* what decrypt_message returned
    exc,              \* what decrypt_message raised
    caller,           \* main(): idle, calling, passed, failed
    caught,           \* the exception main()'s except clause received
    \* main() of the single-device harness
    main_pc,          \* where main() is
    inbox,            \* messages: what poll_inbox returned
    target,           \* index in inbox of target_message, 0 for None
    decrypt_log,      \* the decrypt_message calls made: inbox index and outcome
    deleted,          \* the message_ids delete_message was called with
    \* RelayStressTester
    users,            \* self.users
    request,          \* the payload send_message built last
    phase,            \* where main() of the stress test is
    concurrency,      \* stress_test_sends' parameter
    permits,          \* the semaphore's value
    tasks,            \* the bag of the tasks handed to asyncio.gather
    metrics,          \* self.metrics: the six counters
    calls,            \* number of calls made of each of the three requests
    \* several envelopes on one set of devices
    handled           \* how the decrypt_message calls that are over ended

main_vars == << main_pc, inbox, target, decrypt_log, deleted >>

stress_vars == << users, request, phase, concurrency, permits, tasks, metrics, calls >>

history_vars == << handled >>

\* the state of the two harnesses around the recipient flow
harness_vars == << main_vars, stress_vars, history_vars >>

\* the state of the sender, the relay and the recipient flow
flow_vars == << devices, sent, envelope, tampers, dev, pc, wrapped_key_b64, aes_key,
               raw_cbor, computed_cid, result, exc, caller, caught >>

vars == << flow_vars, harness_vars >>

locals == << wrapped_key_b64, aes_key, raw_cbor, computed_cid >>

NoEnvelope ==
    [message_id        |-> "",
     receipt_cid       |-> <<>>,
     sender_did        |-> "",
     sender_device_id  |-> "",
     encrypted_payload |-> <<>>,
     wrapped_keys      |-> [d \in {} |-> <<>>],
     signature         |-> <<>>]

NoResult ==
    [returned         |-> FALSE,
     raw_cbor         |-> <<>>,
     cid              |-> <<>>,
     signature        |-> <<>>,
     sender_did       |-> "",
     sender_device_id |-> ""]

NoSend == [plain |-> <<>>, recipients |-> {}, seed |-> 0, envelope |-> NoEnvelope]

\* send_message, lines 144-153, before any payload was built
NoRequest ==
    [message_id        |-> "",
     receipt_cid       |-> <<>>,
     sender_did        |-> "",
     sender_device_id  |-> "",
     recipient_dids    |-> <<>>,
     encrypted_payload |-> <<>>,
     wrapped_keys      |-> [d \in {} |-> <<>>],
     signature         |-> <<>>]

\* RelayStressTester.__init__, lines 58-66
NoMetrics ==
    [register_success |-> 0, register_failed |-> 0,
     send_success     |-> 0, send_failed     |-> 0,
     inbox_success    |-> 0, inbox_failed    |-> 0]

NoCalls == [register |-> 0, send |-> 0, inbox |-> 0]

FlowStates ==
    << "RECEIVED", "LOOKUP_WRAPPED_KEY", "UNWRAP_KEY", "DECRYPT_PAYLOAD",
       "VERIFY_CID", "VERIFY_SIGNATURE", "TRUSTED" >>

Terminal == {"TRUSTED", "REJECTED"}

\* what a call of decrypt_message leaves: the exception raised (NoExc when
\* it returns), the locals reached, and the value returned
Outcome(e, key, plain, returned) ==
    [exc |-> e, aes_key |-> key, raw_cbor |-> plain, result |-> returned]

\* decrypt_message as a whole, lines 122-197: the outcome of a call on this
\* device with this message
decrypt_message(device, message) ==
    LET looked    == lookup_wrapped_key(message, device.device_id)
        unwrapped == unwrap_key(device.x25519_private, looked.value)
        decrypted == decrypt_payload(unwrapped.value, message.encrypted_payload)
        verified  == verify_cid(decrypted.value, message.receipt_cid)
        signed    == verify_signature(message.signature)
    IN  IF looked.exc # NoExc
        THEN Outcome(looked.exc, <<>>, <<>>, NoResult)
        ELSE IF unwrapped.exc # NoExc
        THEN Outcome(unwrapped.exc, <<>>, <<>>, NoResult)
        ELSE IF decrypted.exc # NoExc
        THEN Outcome(decrypted.exc, unwrapped.value, <<>>, NoResult)
        ELSE IF verified.exc # NoExc
        THEN Outcome(verified.exc, unwrapped.value, decrypted.value, NoResult)
        ELSE IF signed.exc # NoExc
        THEN Outcome(signed.exc, unwrapped.value, decrypted.value, NoResult)
        ELSE Outcome(NoExc, unwrapped.value, decrypted.value,
                     [returned         |-> TRUE,
                      raw_cbor         |-> decrypted.value,
                      cid              |-> verified.value,
                      signature        |-> signed.value,
                      sender_did       |-> message.sender_did,
                      sender_device_id |-> message.sender_device_id])

Init ==
    /\ devices = NewDevices
    /\ sent = NoSend
    /\ envelope = NoEnvelope
    /\ tampers = 0
    /\ dev = "none"
    /\ pc = "IDLE"
    /\ wrapped_key_b64 = <<>>
    /\ aes_key = <<>>
    /\ raw_cbor = <<>>
    /\ computed_cid = <<>>
    /\ result = NoResult
    /\ exc = NoExc
    /\ caller = "idle"
    /\ caught = NoExc
    /\ main_pc = "start"
    /\ inbox = <<>>
    /\ target = 0
    /\ decrypt_log = <<>>
    /\ deleted = <<>>
    /\ users = <<>>
    /\ request = NoRequest
    /\ phase = "start"
    /\ concurrency = 0
    /\ permits = 0
    /\ tasks = EmptyBag
    /\ metrics = NoMetrics
    /\ calls = NoCalls
    /\ handled = {}

(***************************************************************************)
(* The sender assembles an envelope and hands it to the relay.             *)
(***************************************************************************)
Send ==
    /\ pc = "IDLE"
    /\ \E plain \in Plaintexts, recipients \in RecipientSets, seed \in Seeds :
          /\ envelope' = sender_envelope(devices, plain, recipients, seed)
          /\ sent' = [plain |-> plain, recipients |-> recipients, seed |-> seed,
                      envelope |-> envelope']
    /\ pc' = "WIRE"
    /\ UNCHANGED << harness_vars, devices, tampers, dev, locals, result, exc, caller, caught >>

(***************************************************************************)
(* Changes to the envelope in flight (a faulty relay, an attacker, or a    *)
(* sender that does not follow the protocol).                              *)
(***************************************************************************)
FlipTop(b) == (b + 128) % 256

FlipLow(b) == IF b % 2 = 0 THEN b + 1 ELSE b - 1

\* byte strings obtained from data by one truncation, bit flip or extension
Damaged(data, cuts, positions) ==
    {Slice(data, 0, n) : n \in {c \in cuts : c < Len(data)}}
    \cup {[data EXCEPT ![i] = FlipTop(data[i])] : i \in {q \in positions : q <= Len(data)}}
    \cup {[data EXCEPT ![i] = FlipLow(data[i])] : i \in {q \in positions : q <= Len(data)}}
    \cup {data \o <<0>>}

WrappedKeyCuts == {0, 31, 39, 40, 59}

WrappedKeyFlips == {32, 45, 92}

PayloadCuts == {7, 8, 27}

PayloadFlips == {1, 13}

SignatureCuts == {63}

SignatureFlips == {1}

InFlight == pc = "WIRE" /\ tampers < MaxTamper

Tampered(env) ==
    /\ envelope' = env
    /\ tampers' = tampers + 1
    /\ UNCHANGED << harness_vars, devices, sent, dev, pc, locals, result, exc, caller, caught >>

TamperWrappedKey ==
    /\ InFlight
    /\ \E d \in DOMAIN envelope.wrapped_keys :
          /\ ~b64BadPadding(envelope.wrapped_keys[d])
          /\ \E data \in Damaged(b64decode(envelope.wrapped_keys[d]),
                                 WrappedKeyCuts, WrappedKeyFlips) :
                Tampered([envelope EXCEPT !.wrapped_keys[d] = b64encode(data)])

\* the last character of the base64 text is lost
ChopWrappedKeyText ==
    /\ InFlight
    /\ \E d \in DOMAIN envelope.wrapped_keys :
          /\ Len(envelope.wrapped_keys[d]) > 0
          /\ Tampered([envelope EXCEPT !.wrapped_keys[d] =
                          SubSeq(@, 1, Len(@) - 1)])

DropWrappedKey ==
    /\ InFlight
    /\ \E d \in DOMAIN envelope.wrapped_keys :
          Tampered([envelope EXCEPT !.wrapped_keys =
                       [k \in (DOMAIN @) \ {d} |-> @[k]]])

\* a third party wraps a key of its own for device d, under d's public key
RewrapKey ==
    /\ InFlight
    /\ \E d \in DOMAIN envelope.wrapped_keys, n \in {5, KeyLen} :
          LET public  == x25519_public(devices[d].x25519_private)
              private == 19
          IN  Tampered([envelope EXCEPT !.wrapped_keys[d] =
                  b64encode(wrap(Fill(n, 9), deriveKEK(private, public),
                                 x25519_public(private), Fill(PayloadNonceLen, 1)))])

TamperPayload ==
    /\ InFlight
    /\ ~b64BadPadding(envelope.encrypted_payload)
    /\ \E data \in Damaged(b64decode(envelope.encrypted_payload),
                           PayloadCuts, PayloadFlips) :
          Tampered([envelope EXCEPT !.encrypted_payload = b64encode(data)])

\* the payload is replaced by the encryption of another plaintext under the
\* message key; receipt_cid is kept
SubstitutePayload ==
    /\ InFlight
    /\ \E other \in Plaintexts \ {sent.plain} :
          Tampered([envelope EXCEPT !.encrypted_payload =
              b64encode(encrypt(other, MessageKey(sent.seed), FreshNonce(sent.seed, 0)))])

\* receipt_cid is replaced by the CID of another plaintext
SubstituteCid ==
    /\ InFlight
    /\ \E other \in Plaintexts \ {sent.plain} :
          Tampered([envelope EXCEPT !.receipt_cid = compute_cid(other)])

TamperSignature ==
    /\ InFlight
    /\ ~b64BadPadding(envelope.signature)
    /\ \E data \in Damaged(b64decode(envelope.signature),
                           SignatureCuts, SignatureFlips) :
          Tampered([envelope EXCEPT !.signature = b64encode(data)])

\* the signature is replaced by another signer's signature over the content
ForgeSignature ==
    /\ InFlight
    /\ Tampered([envelope EXCEPT !.signature =
           b64encode(ed25519_sign(SenderEd25519Private + 1,
                                 SignedContent(sent.plain)))])

(***************************************************************************)
(* main() calls decrypt_message on the target message (line 319).          *)
(***************************************************************************)
Receive ==
    /\ pc = "WIRE"
    /\ caller = "idle"
    /\ \E d \in DeviceIds : dev' = d
    /\ pc' = "RECEIVED"
    /\ caller' = "calling"
    /\ UNCHANGED << harness_vars, devices, sent, envelope, tampers, locals, result, exc, caught >>

\* lines 124-126: the flow starts
EnterLookup ==
    /\ pc = "RECEIVED"
    /\ pc' = "LOOKUP_WRAPPED_KEY"
    /\ UNCHANGED << harness_vars, devices, sent, envelope, tampers, dev, locals, result, exc,
                    caller, caught >>

\* Rejected with a retry: on an exception the flow starts over
RejectedRetry(out) ==
    /\ out.exc # NoExc
    /\ pc' = "RECEIVED"
    /\ exc' = out.exc

\* a step of the flow ends in outcome out: its exception is raised and the
\* flow is over, or its value is kept and the flow goes on
Rejected(out) ==
    /\ out.exc # NoExc
    /\ pc' = "REJECTED"
    /\ exc' = out.exc

\* lines 129-131
LookupWrappedKey ==
    /\ pc = "LOOKUP_WRAPPED_KEY"
    /\ \E out \in {lookup_wrapped_key(envelope, devices[dev].device_id)} :
           \/ /\ Rejected(out)
              /\ UNCHANGED wrapped_key_b64
           \/ /\ out.exc = NoExc
              /\ pc' = "UNWRAP_KEY"
              /\ wrapped_key_b64' = out.value
              /\ UNCHANGED exc
    /\ UNCHANGED << harness_vars, devices, sent, envelope, tampers, dev, aes_key, raw_cbor,
                    computed_cid, result, caller, caught >>

\* UnwrapKey on a device that replaces its agreement key with every unwrap
UnwrapKeyRatchet ==
    /\ pc = "UNWRAP_KEY"
    /\ \E out \in {unwrap_key(devices[dev].x25519_private, wrapped_key_b64)} :
           \/ /\ Rejected(out)
              /\ UNCHANGED aes_key
           \/ /\ out.exc = NoExc
              /\ pc' = "DECRYPT_PAYLOAD"
              /\ aes_key' = out.value
              /\ UNCHANGED exc
    /\ devices' = [devices EXCEPT ![dev].x25519_private = (@ % 22) + 1]
    /\ UNCHANGED << harness_vars, sent, envelope, tampers, dev, wrapped_key_b64,
                    raw_cbor, computed_cid, result, caller, caught >>

\* lines 133-157
UnwrapKey ==
    /\ pc = "UNWRAP_KEY"
    /\ \E out \in {unwrap_key(devices[dev].x25519_private, wrapped_key_b64)} :
           \/ /\ Rejected(out)
              /\ UNCHANGED aes_key
           \/ /\ out.exc = NoExc
              /\ pc' = "DECRYPT_PAYLOAD"
              /\ aes_key' = out.value
              /\ UNCHANGED exc
    /\ UNCHANGED << harness_vars, devices, sent, envelope, tampers, dev, wrapped_key_b64,
                    raw_cbor, computed_cid, result, caller, caught >>

\* lines 160-166
DecryptPayload ==
    /\ pc = "DECRYPT_PAYLOAD"
    /\ \E out \in {decrypt_payload(aes_key, envelope.encrypted_payload)} :
           \/ /\ Rejected(out)
              /\ UNCHANGED raw_cbor
           \/ /\ out.exc = NoExc
              /\ pc' = "VERIFY_CID"
              /\ raw_cbor' = out.value
              /\ UNCHANGED exc
    /\ UNCHANGED << harness_vars, devices, sent, envelope, tampers, dev, wrapped_key_b64,
                    aes_key, computed_cid, result, caller, caught >>

\* lines 169-178
VerifyCid ==
    /\ pc = "VERIFY_CID"
    /\ \E out \in {verify_cid(raw_cbor, envelope.receipt_cid)} :
           \/ /\ Rejected(out)
              /\ UNCHANGED computed_cid
           \/ /\ out.exc = NoExc
              /\ pc' = "VERIFY_SIGNATURE"
              /\ computed_cid' = out.value
              /\ UNCHANGED exc
    /\ UNCHANGED << harness_vars, devices, sent, envelope, tampers, dev, wrapped_key_b64,
                    aes_key, raw_cbor, result, caller, caught >>

\* lines 183-197
VerifySignature ==
    /\ pc = "VERIFY_SIGNATURE"
    /\ \E out \in {verify_signature(envelope.signature)} :
           \/ /\ Rejected(out)
              /\ UNCHANGED result
           \/ /\ out.exc = NoExc
              /\ pc' = "TRUSTED"
              /\ result' = [returned         |-> TRUE,
                            raw_cbor         |-> raw_cbor,
                            cid              |-> computed_cid,
                            signature        |-> out.value,
                            sender_did       |-> envelope.sender_did,
                            sender_device_id |-> envelope.sender_device_id]
              /\ UNCHANGED exc
    /\ UNCHANGED << harness_vars, devices, sent, envelope, tampers, dev, locals, caller, caught >>

\* main(), lines 319-329: decrypt_message returned
CallerReturn ==
    /\ caller = "calling"
    /\ pc = "TRUSTED"
    /\ caller' = "passed"
    /\ UNCHANGED << harness_vars, devices, sent, envelope, tampers, dev, pc, locals, result,
                    exc, caught >>

\* main(), lines 331-334: except Exception as e
CallerCatch ==
    /\ caller = "calling"
    /\ pc = "REJECTED"
    /\ caller' = "failed"
    /\ caught' = exc
    /\ UNCHANGED << harness_vars, devices, sent, envelope, tampers, dev, pc, locals, result, exc >>

Tamper ==
    \/ TamperWrappedKey
    \/ ChopWrappedKeyText
    \/ DropWrappedKey
    \/ RewrapKey
    \/ TamperPayload
    \/ SubstitutePayload
    \/ SubstituteCid
    \/ TamperSignature
    \/ ForgeSignature

Flow ==
    \/ EnterLookup
    \/ LookupWrappedKey
    \/ UnwrapKey
    \/ DecryptPayload
    \/ VerifyCid
    \/ VerifySignature

Next ==
    \/ Send
    \/ Tamper
    \/ Receive
    \/ Flow
    \/ CallerReturn
    \/ CallerCatch

Spec == Init /\ [][Next]_vars

\* decrypt_message is sequential code: once called, it runs to its end
FairSpec == Spec /\ WF_vars(Flow) /\ WF_vars(CallerReturn \/ CallerCatch)

\* main(), after line 334: the call is over, its locals are gone, and the
\* devices are there for the next envelope
NextEnvelope ==
    /\ caller \in {"passed", "failed"}
    /\ handled' = handled \cup {pc}
    /\ devices' = devices
    /\ sent' = NoSend
    /\ envelope' = NoEnvelope
    /\ tampers' = 0
    /\ dev' = "none"
    /\ pc' = "IDLE"
    /\ wrapped_key_b64' = <<>>
    /\ aes_key' = <<>>
    /\ raw_cbor' = <<>>
    /\ computed_cid' = <<>>
    /\ result' = NoResult
    /\ exc' = NoExc
    /\ caller' = "idle"
    /\ caught' = NoExc
    /\ UNCHANGED << main_vars, stress_vars >>

MultiNext == Next \/ NextEnvelope

\* envelope after envelope is handed to the same devices
MultiSpec == Init /\ [][MultiNext]_vars

(***************************************************************************)
(* Vocabulary of the claims.                                               *)
(***************************************************************************)
\* the envelope as the sender assembled it
Original == sent.envelope

\* the error kinds of the taxonomy, as the code raises them
NoKeyForDevice(e) ==
    e.type = "Exception" /\ e.msg = "No wrapped key found for device"

InvalidPublicKey(e) == e.type = "ValueError" /\ e.line \in {143, 144}

KeyUnwrapFailed(e) == e.type = "InvalidTag" /\ e.line = 156

PayloadDecryptFailed(e) == e.type = "InvalidTag" /\ e.line = 165

IntegrityMismatch(e) ==
    e.type = "Exception"
    /\ e.msg = "CID integrity check failed - tampering detected!"

InvalidSignatureEncoding(e) ==
    e.type = "Exception" /\ e.msg = "Invalid signature length"

\* the payload was decrypted: raw_cbor holds a plaintext
Decrypted ==
    \/ pc \in {"VERIFY_CID", "VERIFY_SIGNATURE", "TRUSTED"}
    \/ pc = "REJECTED" /\ exc.line \in {176, 183, 187}

\* the CID check was passed
CidPassed ==
    \/ pc \in {"VERIFY_SIGNATURE", "TRUSTED"}
    \/ pc = "REJECTED" /\ exc.line \in {183, 187}

\* the step of the flow a source line belongs to
StepOf(line) ==
    CASE line <= 131 -> "LOOKUP_WRAPPED_KEY"
      [] line >= 133 /\ line <= 157 -> "UNWRAP_KEY"
      [] line >= 159 /\ line <= 166 -> "DECRYPT_PAYLOAD"
      [] line >= 168 /\ line <= 178 -> "VERIFY_CID"
      [] OTHER -> "VERIFY_SIGNATURE"

\* every place of decrypt_message that raises: its step, and the class and
\* message of the exception, which is what a caller receives
RaiseSites ==
    { <<"LOOKUP_WRAPPED_KEY", "Exception", "No wrapped key found for device">>,
      <<"UNWRAP_KEY", "binascii.Error", "Incorrect padding">>,
      <<"UNWRAP_KEY", "ValueError", "An X25519 public key is 32 bytes long">>,
      <<"UNWRAP_KEY", "ValueError", "Error computing shared key.">>,
      <<"UNWRAP_KEY", "ValueError", "Nonce must be between 8 and 128 bytes">>,
      <<"UNWRAP_KEY", "InvalidTag", "">>,
      <<"DECRYPT_PAYLOAD", "binascii.Error", "Incorrect padding">>,
      <<"DECRYPT_PAYLOAD", "ValueError", "AESGCM key must be 128, 192, or 256 bits.">>,
      <<"DECRYPT_PAYLOAD", "ValueError", "Nonce must be between 8 and 128 bytes">>,
      <<"DECRYPT_PAYLOAD", "InvalidTag", "">>,
      <<"VERIFY_CID", "Exception", "CID integrity check failed - tampering detected!">>,
      <<"VERIFY_SIGNATURE", "binascii.Error", "Incorrect padding">>,
      <<"VERIFY_SIGNATURE", "Exception", "Invalid signature length">> }

\* the steps that can raise an exception of this class with this message
StepsRaising(type, msg) == {s[1] : s \in {r \in RaiseSites : r[2] = type /\ r[3] = msg}}

\* the table lists every exception the flow raises
RaiseSitesComplete ==
    pc = "REJECTED" => <<StepOf(exc.line), exc.type, exc.msg>> \in RaiseSites

(***************************************************************************)
(* C1: CID verification comes before the plaintext is handed over.  When   *)
(* the CID recomputed from the decrypted plaintext differs from the        *)
(* envelope's receipt_cid, the flow never goes past VERIFY_CID: it is      *)
(* REJECTED with IntegrityMismatch, and nothing is returned to the caller. *)
(***************************************************************************)
C1_CidBeforePlaintext ==
    /\ (Decrypted /\ compute_cid(raw_cbor) # envelope.receipt_cid) =>
          /\ pc \in {"VERIFY_CID", "REJECTED"}
          /\ pc = "REJECTED" => IntegrityMismatch(exc)
          /\ ~result.returned
    /\ result.returned => compute_cid(result.raw_cbor) = envelope.receipt_cid

C1_Witness ==
    /\ pc = "REJECTED"
    /\ IntegrityMismatch(exc)
    /\ compute_cid(raw_cbor) # envelope.receipt_cid
    /\ ~result.returned

(***************************************************************************)
(* C2: signature verification gates trust.  The flow reaches TRUSTED only  *)
(* if the envelope's signature verifies against the sender's public        *)
(* signature key over the canonical content (and the CID check passed).    *)
(***************************************************************************)
C2_SignatureGatesTrust ==
    pc = "TRUSTED" =>
        /\ ed25519_verify(ed25519_public(SenderEd25519Private),
                          result.signature, SignedContent(result.raw_cbor))
        /\ compute_cid(result.raw_cbor) = envelope.receipt_cid

(***************************************************************************)
(* C3: absent recipient.  The flow is rejected with NoKeyForDevice exactly *)
(* when the device's device_id is not a key of wrapped_keys: an absent     *)
(* device gets NoKeyForDevice, and NoKeyForDevice is reported only then.   *)
(***************************************************************************)
C3_AbsentRecipient ==
    pc = "REJECTED" =>
        (NoKeyForDevice(exc) <=>
            devices[dev].device_id \notin DOMAIN envelope.wrapped_keys)

(***************************************************************************)
(* C4: error propagation.  Every failure reaches the caller, and what the  *)
(* caller receives (the exception's class and message) identifies the step *)
(* of the flow that failed.                                                *)
(***************************************************************************)
C4_ErrorIdentifiesStep ==
    caller = "failed" =>
        /\ caught = exc
        /\ StepsRaising(caught.type, caught.msg) = {StepOf(exc.line)}

(***************************************************************************)
(* C5: the recipient flow is linear and has no retries.  Its state only    *)
(* moves along RECEIVED, LOOKUP_WRAPPED_KEY, UNWRAP_KEY, DECRYPT_PAYLOAD,  *)
(* VERIFY_CID, VERIFY_SIGNATURE, TRUSTED, one state at a time, or from a   *)
(* step to REJECTED; TRUSTED and REJECTED are never left and nothing of    *)
(* the flow changes after them; and every flow that starts ends in one of  *)
(* the two.                                                                *)
(***************************************************************************)
FlowOrder ==
    /\ pc' # pc =>
          \/ pc = "IDLE" /\ pc' = "WIRE"
          \/ pc = "WIRE" /\ pc' = "RECEIVED"
          \/ \E i \in 1..(Len(FlowStates) - 1) :
                pc = FlowStates[i] /\ pc' = FlowStates[i + 1]
          \/ \E i \in 2..(Len(FlowStates) - 1) :
                pc = FlowStates[i] /\ pc' = "REJECTED"
    /\ pc \in Terminal =>
          /\ pc' = pc
          /\ UNCHANGED << locals, result, exc, envelope, dev >>

C5_LinearFlow ==
    /\ [][FlowOrder]_vars
    /\ (pc = "RECEIVED") ~> (pc \in Terminal)

C5_Witness ==
    /\ pc = "REJECTED"
    /\ StepOf(exc.line) = "DECRYPT_PAYLOAD"
    /\ raw_cbor = <<>>
    /\ computed_cid = <<>>
    /\ ~result.returned

\* the receiving device's entry of wrapped_keys is the one the sender made
WrappedKeyIntact ==
    /\ devices[dev].device_id \in DOMAIN Original.wrapped_keys
    /\ devices[dev].device_id \in DOMAIN envelope.wrapped_keys
    /\ envelope.wrapped_keys[devices[dev].device_id]
          = Original.wrapped_keys[devices[dev].device_id]

\* the receiving device's entry of wrapped_keys was modified
WrappedKeyModified ==
    /\ devices[dev].device_id \in DOMAIN Original.wrapped_keys
    /\ devices[dev].device_id \in DOMAIN envelope.wrapped_keys
    /\ envelope.wrapped_keys[devices[dev].device_id]
          # Original.wrapped_keys[devices[dev].device_id]

\* the step the flow was rejected at
RejectedAt(step) == pc = "REJECTED" /\ StepOf(exc.line) = step

(***************************************************************************)
(* C6: end to end.  For an envelope a sender produced from plaintext P for *)
(* its recipient devices, and delivered as produced, the flow of a         *)
(* recipient ends in TRUSTED and returns P; the flow of a device that is   *)
(* not a recipient ends in REJECTED with NoKeyForDevice.                   *)
(***************************************************************************)
C6_EndToEnd ==
    (pc \in Terminal /\ tampers = 0) =>
        IF devices[dev].device_id \in sent.recipients
        THEN /\ pc = "TRUSTED"
             /\ result.returned
             /\ result.raw_cbor = sent.plain
        ELSE /\ pc = "REJECTED"
             /\ NoKeyForDevice(exc)

C6_Witness ==
    /\ pc = "TRUSTED"
    /\ tampers = 0
    /\ sent.recipients = {"devA", "devB"}
    /\ dev = "devA"
    /\ sent.plain = <<104>>
    /\ result.returned
    /\ result.raw_cbor = <<104>>

(***************************************************************************)
(* C7: round trip.  Unwrapping the wrapped key the sender made, with the   *)
(* recipient's private key, gives the message key that was wrapped, the    *)
(* two sides deriving the same KEK; decrypting the payload the sender made *)
(* with that message key gives the plaintext that was encrypted.           *)
(***************************************************************************)
C7_RoundTrip ==
    /\ ((pc = "DECRYPT_PAYLOAD" \/ RejectedAt("UNWRAP_KEY")) /\ WrappedKeyIntact) =>
          /\ pc = "DECRYPT_PAYLOAD"
          /\ aes_key = MessageKey(sent.seed)
          /\ deriveKEK(devices[dev].x25519_private,
                       x25519_public(EphemeralPrivate(sent.seed)))
                = deriveKEK(EphemeralPrivate(sent.seed),
                            x25519_public(devices[dev].x25519_private))
    /\ ((pc = "VERIFY_CID" \/ RejectedAt("DECRYPT_PAYLOAD"))
            /\ aes_key = MessageKey(sent.seed)
            /\ envelope.encrypted_payload = Original.encrypted_payload) =>
          /\ pc = "VERIFY_CID"
          /\ raw_cbor = sent.plain

C7_Witness ==
    /\ pc = "VERIFY_CID"
    /\ WrappedKeyIntact
    /\ envelope.encrypted_payload = Original.encrypted_payload
    /\ aes_key = MessageKey(sent.seed)
    /\ sent.plain # <<>>
    /\ raw_cbor = sent.plain

(***************************************************************************)
(* C8: tamper detection.  When the recipient's wrapped_keys entry was      *)
(* modified the flow ends in REJECTED with KeyUnwrapFailed; when (the      *)
(* entry being intact) encrypted_payload was modified it ends in REJECTED  *)
(* with PayloadDecryptFailed; TRUSTED is not reached and nothing is        *)
(* returned.                                                               *)
(***************************************************************************)
C8_TamperDetected ==
    pc \in Terminal =>
        /\ WrappedKeyModified =>
              /\ pc = "REJECTED"
              /\ KeyUnwrapFailed(exc)
              /\ ~result.returned
        /\ (WrappedKeyIntact
                /\ envelope.encrypted_payload # Original.encrypted_payload) =>
              /\ pc = "REJECTED"
              /\ PayloadDecryptFailed(exc)
              /\ ~result.returned

(***************************************************************************)
(* C9: truncated wrapped key.  When the recipient's wrapped-key blob is    *)
(* shorter than 44 bytes plus the 16 bytes of the tag, the flow ends in    *)
(* REJECTED with KeyUnwrapFailed and no message key is produced.           *)
(***************************************************************************)
C9_TruncatedBlob ==
    (/\ pc \in Terminal
     /\ devices[dev].device_id \in DOMAIN envelope.wrapped_keys
     /\ ~b64BadPadding(envelope.wrapped_keys[devices[dev].device_id])
     /\ Len(b64decode(envelope.wrapped_keys[devices[dev].device_id]))
            < WrapNonceEnd + TagLen) =>
        /\ pc = "REJECTED"
        /\ KeyUnwrapFailed(exc)
        /\ aes_key = <<>>

(***************************************************************************)
(* C10: CID binding.  When the payload decrypts to a plaintext other than  *)
(* the sender's while receipt_cid is the sender's, the flow is rejected at *)
(* VERIFY_CID with IntegrityMismatch; and the CID check is passed exactly  *)
(* when the claimed CID equals the CID computed from the decrypted         *)
(* plaintext.                                                              *)
(***************************************************************************)
C10_CidBinding ==
    /\ (/\ pc \in Terminal
        /\ Decrypted
        /\ raw_cbor # sent.plain
        /\ envelope.receipt_cid = compute_cid(sent.plain)) =>
          /\ RejectedAt("VERIFY_CID")
          /\ IntegrityMismatch(exc)
    /\ (Decrypted /\ pc # "VERIFY_CID") =>
          (CidPassed <=> envelope.receipt_cid = compute_cid(raw_cbor))

C10_Witness ==
    /\ RejectedAt("VERIFY_CID")
    /\ IntegrityMismatch(exc)
    /\ raw_cbor # sent.plain
    /\ raw_cbor \in Plaintexts
    /\ envelope.receipt_cid = compute_cid(sent.plain)

\* the outcome of the flow that ran
FlowOutcome == Outcome(exc, aes_key, raw_cbor, result)

\* the message with the wrapped_keys entries of all other devices removed
OwnEntryOnly(message, device_id) ==
    [message EXCEPT !.wrapped_keys =
        [d \in (DOMAIN message.wrapped_keys) \cap {device_id} |->
            message.wrapped_keys[d]]]

(***************************************************************************)
(* C11: multi-recipient independence.  The outcome of a device's flow (its *)
(* unwrapped key, its plaintext, its terminal state) is the outcome of the *)
(* flow on the envelope with every other device's wrapped_keys entry taken *)
(* away: it depends on the device's own entry only.  In particular, when   *)
(* only other devices' entries of a valid envelope were corrupted,         *)
(* replaced or removed, a recipient still ends in TRUSTED with the         *)
(* sender's key and plaintext.                                             *)
(***************************************************************************)
C11_RecipientIndependence ==
    pc \in Terminal =>
        /\ FlowOutcome
              = decrypt_message(devices[dev],
                                OwnEntryOnly(envelope, devices[dev].device_id))
        /\ (/\ devices[dev].device_id \in sent.recipients
            /\ OwnEntryOnly(envelope, devices[dev].device_id)
                  = OwnEntryOnly(Original, devices[dev].device_id)) =>
              /\ pc = "TRUSTED"
              /\ aes_key = MessageKey(sent.seed)
              /\ result.raw_cbor = sent.plain

C11_Witness ==
    /\ pc = "TRUSTED"
    /\ dev = "devA"
    /\ sent.recipients = {"devA", "devB"}
    /\ WrappedKeyIntact
    /\ \/ "devB" \notin DOMAIN envelope.wrapped_keys
       \/ envelope.wrapped_keys["devB"] = <<>>
    /\ aes_key = MessageKey(sent.seed)
    /\ result.raw_cbor = sent.plain

(***************************************************************************)
(* RelayStressTester (stress_test_relay.py): the simulated users and the   *)
(* payload of send_message.  A text is a sequence of characters.           *)
(***************************************************************************)
\* number of simulated users (NUM_USERS)
MaxUsers == 3

Digits == <<"0", "1", "2", "3", "4", "5", "6", "7", "8", "9">>

\* str.isdigit, on the characters of a phone number
IsDigit(ch) == \E i \in 1..Len(Digits) : Digits[i] = ch

\* ord(ch) of the characters a phone number is made of
Ord(ch) ==
    IF IsDigit(ch)
    THEN 47 + (CHOOSE i \in 1..Len(Digits) : Digits[i] = ch)
    ELSE CASE ch = "+" -> 43 [] ch = " " -> 32 [] ch = "-" -> 45 [] OTHER -> 63

\* str.encode(): the UTF-8 bytes of an ASCII text
encode_utf8(text) == [i \in 1..Len(text) |-> Ord(text[i])]

HexDigits ==
    <<"0", "1", "2", "3", "4", "5", "6", "7", "8", "9", "a", "b", "c", "d", "e", "f">>

\* bytes.hex() and hashlib's hexdigest()
hex(data) ==
    [i \in 1..(2 * Len(data)) |->
        IF i % 2 = 1 THEN HexDigits[(data[(i + 1) \div 2] \div 16) + 1]
        ELSE HexDigits[(data[i \div 2] % 16) + 1]]

\* hash_phone_number (test_e2ee_single_device.py): the phone number as it is
hash_phone_number(phone) == hex(sha256(encode_utf8(phone)))

\* RelayStressTester._hash_phone: the digits only, a leading 1 for ten digits
stress_hash_phone(phone) ==
    LET digits == SelectSeq(phone, IsDigit)
    IN  hex(sha256(encode_utf8(IF Len(digits) = 10 THEN <<"1">> \o digits
                               ELSE digits)))

\* f"{i:04d}"
FourDigits(i) ==
    << Digits[((i \div 1000) % 10) + 1], Digits[((i \div 100) % 10) + 1],
       Digits[((i \div 10) % 10) + 1], Digits[(i % 10) + 1] >>

\* f"+1555000{i:04d}", the phone number of user i (from 0)
UserPhone(i) == <<"+", "1", "5", "5", "5", "0", "0", "0">> \o FourDigits(i)

\* the values of a byte that os.urandom draws
RandomFills == {17, 200}

\* os.urandom(n)
urandom(n) == {Fill(n, v) : v \in RandomFills}

\* _random_b64(byte_length), for the bytes drawn
random_b64(random_bytes) == b64encode(random_bytes)

\* str.lower() of a base64 text: "A".."Z" are the values 0..25, "a".."z" 26..51
lower_b64(str) == [i \in 1..Len(str) |-> IF str[i] < 26 THEN str[i] + 26 ELSE str[i]]

\* setup_users, lines 73-81: user i (from 0); uuid4 gives each a device_id
\* of its own
SimUser(i, pubkey_x25519, pubkey_ed25519) ==
    [did            |-> "did:buds:test0000" \o ToString(i),
     device_id      |-> "uuid-" \o ToString(i),
     phone_hash     |-> stress_hash_phone(UserPhone(i)),
     pubkey_x25519  |-> random_b64(pubkey_x25519),
     pubkey_ed25519 |-> random_b64(pubkey_ed25519)]

\* a task handed to asyncio.gather: the request it makes, where it is, and
\* how often it incremented the success and the failed counter
NewTask(kind, at) == [kind |-> kind, pc |-> at, success |-> 0, failed |-> 0]

\* the tasks of one gather: n tasks of the same coroutine, none started
NewTasks(n, kind, at) == [task \in {NewTask(kind, at)} |-> n]

\* random.sample with repeated picks allowed
sample_with_replacement(population, k) ==
    {[i \in 1..k |-> population[pick[i]]] : pick \in [1..k -> 1..Len(population)]}

\* random.sample(population, k): k different members, in any order
sample(population, k) ==
    {[i \in 1..k |-> population[pick[i]]] :
        pick \in {f \in [1..k -> 1..Len(population)] :
                    \A i, j \in 1..k : i # j => f[i] # f[j]}}

\* send_message, lines 135-153: the payload, for the values drawn.  A dict
\* comprehension keeps, for a key given twice, the value given last.
send_message_payload(sender, recipients, key_bytes, cid_bytes, payload_bytes, signature_bytes) ==
    LET ids == {recipients[i].device_id : i \in 1..Len(recipients)}
        last(d) == CHOOSE i \in 1..Len(recipients) :
                      /\ recipients[i].device_id = d
                      /\ \A j \in (i + 1)..Len(recipients) :
                            recipients[j].device_id # d
    IN  [message_id        |-> "uuid-message",
         receipt_cid       |-> <<"b", "a", "f", "y", "r", "e", "i">>
                                  \o lower_b64(random_b64(cid_bytes)),
         sender_did        |-> sender.did,
         sender_device_id  |-> sender.device_id,
         recipient_dids    |-> [i \in 1..Len(recipients) |-> recipients[i].did],
         encrypted_payload |-> random_b64(payload_bytes),
         wrapped_keys      |-> [d \in ids |-> random_b64(key_bytes[last(d)])],
         signature         |-> random_b64(signature_bytes)]

\* setup_users, lines 68-82: the users are created and one register_user
\* task per user is handed to asyncio.gather
CreateUsers ==
    /\ phase = "start"
    /\ \E pubkey_x25519 \in urandom(32), pubkey_ed25519 \in urandom(32) :
          users' = [i \in 1..MaxUsers |->
                       SimUser(i - 1, pubkey_x25519, pubkey_ed25519)]
    /\ tasks' = NewTasks(MaxUsers, "register", "ready")
    /\ phase' = "register"
    /\ UNCHANGED << flow_vars, history_vars, main_vars, request, concurrency, permits,
                    metrics, calls >>

\* send_with_limit, lines 218-221, and send_message, lines 135-153: a sender
\* and a circle of 2 to 12 recipients are picked and the payload is built
BuildPayload ==
    /\ users # <<>>
    /\ request = NoRequest
    /\ \E sender \in 1..Len(users), circle_size \in 2..Min(12, Len(users)) :
          \E recipients \in sample(users, circle_size),
             key_bytes \in [1..circle_size -> urandom(92)],
             fill \in RandomFills :
                request' = send_message_payload(users[sender], recipients, key_bytes,
                               Fill(30, fill), Fill(700, fill), Fill(88, fill))
    /\ UNCHANGED << flow_vars, history_vars, main_vars, users, phase, concurrency, permits,
                    tasks, metrics, calls >>

\* send_message, lines 155-173: the payload is posted and the call is over
PostPayload ==
    /\ request # NoRequest
    /\ request' = NoRequest
    /\ UNCHANGED << flow_vars, history_vars, main_vars, users, phase, concurrency, permits,
                    tasks, metrics, calls >>

SendNext == CreateUsers \/ BuildPayload \/ PostPayload

\* the payloads send_message builds
SendSpec == Init /\ [][SendNext]_vars

\* the device_ids of the users a payload is addressed to
RecipientDevices(payload) ==
    {users[i].device_id :
        i \in {u \in 1..Len(users) :
                 \E k \in 1..Len(payload.recipient_dids) :
                    payload.recipient_dids[k] = users[u].did}}

\* C12: every payload send_message builds has exactly one wrapped_keys entry
\* per recipient device, under different device_ids, none for a device that
\* is not a recipient, and one encrypted_payload however many recipients
C12_OneEntryPerRecipient ==
    request # NoRequest =>
        /\ DOMAIN request.wrapped_keys = RecipientDevices(request)
        /\ Cardinality(DOMAIN request.wrapped_keys) = Len(request.recipient_dids)
        /\ \A i, j \in 1..Len(request.recipient_dids) :
              i # j => request.recipient_dids[i] # request.recipient_dids[j]
        /\ \A i \in 1..Len(users) :
              users[i].device_id \in DOMAIN request.wrapped_keys
                  <=> \E k \in 1..Len(request.recipient_dids) :
                         request.recipient_dids[k] = users[i].did
        /\ Len(b64decode(request.encrypted_payload)) = 700

C12_Witness ==
    /\ request # NoRequest
    /\ Len(request.recipient_dids) = 2
    /\ Cardinality(DOMAIN request.wrapped_keys) = 2
    /\ \E i \in 1..Len(users) : users[i].device_id \notin DOMAIN request.wrapped_keys

\* C13: in every payload the first 32 bytes of all wrapped-key blobs (the
\* sender's ephemeral public key) are the same
C13_OneEphemeralKey ==
    request # NoRequest =>
        \A d, e \in DOMAIN request.wrapped_keys :
            SubSeq(b64decode(request.wrapped_keys[d]), 1, EphPubLen)
                = SubSeq(b64decode(request.wrapped_keys[e]), 1, EphPubLen)

\* C14: the signature of every payload send_message builds decodes to 64
\* bytes and passes the recipient's check of the length
C14_SignatureLength ==
    request # NoRequest =>
        /\ Len(b64decode(request.signature)) = SignatureLen
        /\ verify_signature(request.signature).exc = NoExc

\* C17: the phone hash of a registration is the SHA-256 of the phone number as
\* given, in hex, and _hash_phone gives what hash_phone_number gives
C17_PhoneHash ==
    \A i \in 1..Len(users) :
        /\ users[i].phone_hash = hash_phone_number(UserPhone(i - 1))
        /\ stress_hash_phone(UserPhone(i - 1)) = hash_phone_number(UserPhone(i - 1))

CidInputs == {Fill(n, v) : n \in 0..(MaxPlainLen + 1), v \in {104, 105}}

MaxMessages == 2

\* concurrency of stress_test_sends
MaxConcurrency == 2

\* asyncio.Semaphore.locked() that never holds
locked_never(value) == FALSE

\* asyncio.Semaphore.locked(): no slot is free
locked(value) == value = 0

\* self.metrics[counter] += 1
Increment(counters, counter) == [counters EXCEPT ![counter] = @ + 1]

AllDone == \A task \in BagToSet(tasks) : task.pc = "done"

\* one task of the bag goes from one state to another
Moved(bag, from, to) == (bag (-) SetToBag({from})) (+) SetToBag({to})

\* the status of a successful response: 201 for register and send, 200 for
\* the inbox
OkStatus(kind) == IF kind = "inbox" THEN 200 ELSE 201

\* the statuses a relay answers with
Statuses == {200, 201, 401, 500}

\* the counter a call increments for a response of the status
StatusCounter(kind, status) ==
    IF status = OkStatus(kind) THEN "success" ELSE "failed"

\* what the call awaits after it counted the response: resp.json() of a good
\* inbox response (line 197), resp.text() of a bad send response (line 172)
ReadsBody(kind, status) ==
    \/ kind = "inbox" /\ status = OkStatus(kind)
    \/ kind = "send" /\ status # OkStatus(kind)

\* the semaphore's value when a task ends: `async with semaphore` of
\* send_with_limit gives the slot back on return and on exception
Released(kind, value) == IF kind = "send" THEN value + 1 ELSE value

\* register_user, lines 98-113, and poll_inbox, lines 184-192: the call is
\* made and its request goes out
StartCall ==
    /\ \E task \in BagToSet(tasks) :
          /\ task.pc = "ready"
          /\ tasks' = Moved(tasks, task, [task EXCEPT !.pc = "awaiting"])
          /\ calls' = Increment(calls, task.kind)
    /\ UNCHANGED << flow_vars, history_vars, main_vars, users, request, phase,
                    concurrency, permits, metrics >>

\* send_with_limit, lines 217-222: a slot of the semaphore is taken, and
\* send_message is called and posts its payload (lines 135-162)
Acquire ==
    /\ ~locked(permits)
    /\ \E task \in BagToSet(tasks) :
          /\ task.pc = "queued"
          /\ tasks' = Moved(tasks, task, [task EXCEPT !.pc = "awaiting"])
          /\ calls' = Increment(calls, task.kind)
    /\ permits' = permits - 1
    /\ UNCHANGED << flow_vars, history_vars, main_vars, users, request, phase,
                    concurrency, metrics >>

\* lines 117-125, 166-174, 194-201: the response is there; the call counts
\* it by its status and returns, or goes on to read the body
Respond ==
    /\ \E task \in BagToSet(tasks), status \in Statuses :
          LET kind    == task.kind
              counter == StatusCounter(kind, status)
          IN  /\ task.pc = "awaiting"
              /\ metrics' = Increment(metrics, kind \o "_" \o counter)
              /\ IF ReadsBody(kind, status)
                 THEN /\ tasks' = Moved(tasks, task,
                                     Increment([task EXCEPT !.pc = "reading"], counter))
                      /\ UNCHANGED permits
                 ELSE /\ tasks' = Moved(tasks, task,
                                     Increment([task EXCEPT !.pc = "done"], counter))
                      /\ permits' = Released(kind, permits)
    /\ UNCHANGED << flow_vars, history_vars, main_vars, users, request, phase,
                    concurrency, calls >>

\* lines 127-130, 176-179, 203-206: session.post or session.get raises, and
\* the except clause counts a failure
RequestRaises ==
    /\ \E task \in BagToSet(tasks) :
          /\ task.pc = "awaiting"
          /\ metrics' = Increment(metrics, task.kind \o "_failed")
          /\ tasks' = Moved(tasks, task, Increment([task EXCEPT !.pc = "done"], "failed"))
          /\ permits' = Released(task.kind, permits)
    /\ UNCHANGED << flow_vars, history_vars, main_vars, users, request, phase,
                    concurrency, calls >>

\* lines 172-174 and 197-198: the body is read and the call returns
BodyRead ==
    /\ \E task \in BagToSet(tasks) :
          /\ task.pc = "reading"
          /\ tasks' = Moved(tasks, task, [task EXCEPT !.pc = "done"])
          /\ permits' = Released(task.kind, permits)
    /\ UNCHANGED << flow_vars, history_vars, main_vars, users, request, phase,
                    concurrency, metrics, calls >>

\* lines 172 and 197 raise (the connection breaks, the body is not JSON), and
\* the except clause of lines 176-179 and 203-206 counts a failure
BodyRaises ==
    /\ \E task \in BagToSet(tasks) :
          /\ task.pc = "reading"
          /\ metrics' = Increment(metrics, task.kind \o "_failed")
          /\ tasks' = Moved(tasks, task, Increment([task EXCEPT !.pc = "done"], "failed"))
          /\ permits' = Released(task.kind, permits)
    /\ UNCHANGED << flow_vars, history_vars, main_vars, users, request, phase,
                    concurrency, calls >>

\* main, line 313, and stress_test_sends, lines 213-225: the registrations
\* are over; the semaphore is made and the send tasks are handed to gather
StartSends ==
    /\ phase = "register"
    /\ AllDone
    /\ \E num_messages \in 1..MaxMessages, c \in 1..MaxConcurrency :
          /\ concurrency' = c
          /\ permits' = c
          /\ tasks' = NewTasks(num_messages, "send", "queued")
    /\ phase' = "send"
    /\ UNCHANGED << flow_vars, history_vars, main_vars, users, request, metrics,
                    calls >>

\* main, line 316, and stress_test_inbox_polling, lines 241-242: gather of
\* the sends returned; one poll_inbox task per user is handed to gather
StartPolls ==
    /\ phase = "send"
    /\ AllDone
    /\ tasks' = NewTasks(Len(users), "inbox", "ready")
    /\ phase' = "inbox"
    /\ UNCHANGED << flow_vars, history_vars, main_vars, users, request,
                    concurrency, permits, metrics, calls >>

\* main, line 319: the polls are over and the metrics are printed
PrintMetrics ==
    /\ phase = "inbox"
    /\ AllDone
    /\ phase' = "done"
    /\ UNCHANGED << flow_vars, history_vars, main_vars, users, request,
                    concurrency, permits, tasks, metrics, calls >>

\* the event loop runs a task that can run
Scheduling ==
    \/ StartCall
    \/ Acquire
    \/ StartSends
    \/ StartPolls
    \/ PrintMetrics

\* an HTTP request or the reading of a body completes, one way or another
Http ==
    \/ Respond
    \/ RequestRaises
    \/ BodyRead
    \/ BodyRaises

StressNext ==
    \/ CreateUsers
    \/ Scheduling
    \/ Http

\* main() of the stress test
StressSpec == Init /\ [][StressNext]_vars

\* the event loop runs the tasks that can run, and every HTTP request
\* completes
FairStressSpec == StressSpec /\ WF_vars(Scheduling) /\ WF_vars(Http)

\* how many calls of the kind were counted, as success or as failure
Counted(kind) == metrics[kind \o "_success"] + metrics[kind \o "_failed"]

\* C18: every call increments one of its two counters, once: a task that is
\* done was counted once, and when the tasks are done the two counters of a
\* request add up to the number of calls made of it
C18_CountedOnce ==
    /\ \A task \in BagToSet(tasks) :
          task.pc = "done" => task.success + task.failed = 1
    /\ AllDone => \A kind \in {"register", "send", "inbox"} :
                     Counted(kind) = calls[kind]

\* the send tasks that hold a slot: send_message was called and is not over
SendsInFlight ==
    BagCardinality([task \in {x \in BagToSet(tasks) :
                                 x.kind = "send" /\ x.pc \in {"awaiting", "reading"}}
                       |-> tasks[task]])

\* stress_test_sends is over: every send was attempted and every slot is back
SendsFinished ==
    /\ phase = "send"
    /\ AllDone
    /\ calls.send = BagCardinality(tasks)
    /\ permits = concurrency

\* C19: never more than `concurrency` sends in flight, and every send, however
\* it ends, gives its slot back: all sends are attempted and gather returns
C19_BoundedConcurrency ==
    /\ [](/\ SendsInFlight <= concurrency
          /\ phase = "send" => permits + SendsInFlight = concurrency)
    /\ (phase = "send") ~> SendsFinished

C19_Witness ==
    /\ phase = "send"
    /\ permits = 0
    /\ SendsInFlight = concurrency
    /\ \E task \in BagToSet(tasks) : task.pc = "queued"
    /\ \E task \in BagToSet(tasks) : task.pc = "reading"

(***************************************************************************)
(* main() of the single-device harness (test_e2ee_single_device.py):       *)
(* register, poll the inbox, pick the message with Device B's key, decrypt *)
(* it, delete it from the relay.                                           *)
(***************************************************************************)
\* number of messages the relay returns for one poll
MaxInbox == 2

\* device_b of main(), line 277
DeviceB == NewDevices["devB"]

\* messages a relay may hold for the owner: as the sender made them, for
\* Device B or not, or with a receipt_cid of other bytes, or with a signature
\* of 63 bytes
RelayMessages ==
    UNION {LET message == sender_envelope(NewDevices, plain, recipients, 1)
           IN  {message,
                [message EXCEPT !.receipt_cid = compute_cid(plain \o <<0>>)],
                [message EXCEPT !.signature = b64encode(Fill(SignatureLen - 1, 1))]} :
              plain \in Plaintexts, recipients \in RecipientSets}

\* data.get('messages', []): the relay numbers the messages it returns
Inboxes ==
    UNION {{[i \in 1..n |-> [messages[i] EXCEPT !.message_id = "msg-" \o ToString(i)]] :
               messages \in [1..n -> RelayMessages]} : n \in 0..MaxInbox}

\* lines 305-310: the index of target_message, the first message whose
\* wrapped_keys has the device's id; 0 for None
first_with_key(messages, device_id) ==
    LET with_key == {i \in 1..Len(messages) : device_id \in DOMAIN messages[i].wrapped_keys}
    IN  IF with_key = {} THEN 0
        ELSE CHOOSE i \in with_key : \A j \in with_key : i <= j

\* lines 280-281: register_to_relay returns
RegisterToRelay ==
    /\ main_pc = "start"
    /\ main_pc' = "registered"
    /\ UNCHANGED << flow_vars, history_vars, stress_vars, inbox, target,
                    decrypt_log, deleted >>

\* lines 282-284: register_to_relay raises and main returns
RegisterFails ==
    /\ main_pc = "start"
    /\ main_pc' = "exit"
    /\ UNCHANGED << flow_vars, history_vars, stress_vars, inbox, target,
                    decrypt_log, deleted >>

\* lines 294-298: poll_inbox returns the messages; with none main returns
PollInbox ==
    /\ main_pc = "registered"
    /\ \E messages \in Inboxes :
          /\ inbox' = messages
          /\ main_pc' = IF messages = <<>> THEN "exit" ELSE "polled"
    /\ UNCHANGED << flow_vars, history_vars, stress_vars, target, decrypt_log,
                    deleted >>

\* lines 301-316: the target message is looked for; with none main returns
SelectTarget ==
    /\ main_pc = "polled"
    /\ target' = first_with_key(inbox, DeviceB.device_id)
    /\ main_pc' = IF target' = 0 THEN "exit" ELSE "selected"
    /\ UNCHANGED << flow_vars, history_vars, stress_vars, inbox, decrypt_log,
                    deleted >>

\* DecryptTarget going on to delete_message whatever decrypt_message did
DecryptTargetRegardless ==
    /\ main_pc = "selected"
    /\ \E out \in {decrypt_message(DeviceB, inbox[target])} :
          /\ decrypt_log' = Append(decrypt_log,
                                   [index |-> target,
                                    message_id |-> inbox[target].message_id,
                                    outcome |-> out])
          /\ main_pc' = "decrypted"
    /\ UNCHANGED << flow_vars, history_vars, stress_vars, inbox, target, deleted >>

\* lines 319-326 and 331-334: decrypt_message is called on the target; when
\* it raises, the except clause reports it and main ends
DecryptTarget ==
    /\ main_pc = "selected"
    /\ \E out \in {decrypt_message(DeviceB, inbox[target])} :
          /\ decrypt_log' = Append(decrypt_log,
                                   [index |-> target,
                                    message_id |-> inbox[target].message_id,
                                    outcome |-> out])
          /\ main_pc' = IF out.exc = NoExc THEN "decrypted" ELSE "exit"
    /\ UNCHANGED << flow_vars, history_vars, stress_vars, inbox, target, deleted >>

\* line 329: delete_message(target_message['message_id'])
DeleteMessage ==
    /\ main_pc = "decrypted"
    /\ deleted' = Append(deleted, inbox[target].message_id)
    /\ main_pc' = "exit"
    /\ UNCHANGED << flow_vars, history_vars, stress_vars, inbox, target,
                    decrypt_log >>

MainNext ==
    \/ RegisterToRelay
    \/ RegisterFails
    \/ PollInbox
    \/ SelectTarget
    \/ DecryptTarget
    \/ DeleteMessage

\* main() of the single-device harness
MainSpec == Init /\ [][MainNext]_vars

\* the message at the index passes every check of decrypt_message on Device B
PassesChecks(i) ==
    /\ DeviceB.device_id \in DOMAIN inbox[i].wrapped_keys
    /\ \E key \in {unwrap_key(DeviceB.x25519_private,
                              inbox[i].wrapped_keys[DeviceB.device_id])} :
          /\ key.exc = NoExc
          /\ \E plain \in {decrypt_payload(key.value, inbox[i].encrypted_payload)} :
                /\ plain.exc = NoExc
                /\ compute_cid(plain.value) = inbox[i].receipt_cid
    /\ Len(b64decode(inbox[i].signature)) = SignatureLen

\* C20: delete_message is called for a message only after decrypt_message of
\* that message returned, all checks passed; after a decrypt_message that
\* raised nothing is deleted; and decrypt_message is called only on the first
\* message of the inbox whose wrapped_keys has the device's id
C20_DeleteAfterTrust ==
    /\ \A d \in 1..Len(deleted) :
          \E k \in 1..Len(decrypt_log) :
              /\ decrypt_log[k].message_id = deleted[d]
              /\ decrypt_log[k].outcome.exc = NoExc
              /\ PassesChecks(decrypt_log[k].index)
    /\ \A k \in 1..Len(decrypt_log) :
          /\ DeviceB.device_id \in DOMAIN inbox[decrypt_log[k].index].wrapped_keys
          /\ \A j \in 1..(decrypt_log[k].index - 1) :
                DeviceB.device_id \notin DOMAIN inbox[j].wrapped_keys
          /\ decrypt_log[k].outcome.exc # NoExc =>
                /\ main_pc = "exit"
                /\ deleted = <<>>
    /\ main_pc = "decrypted" =>
          /\ decrypt_log # <<>>
          /\ decrypt_log[Len(decrypt_log)].outcome.exc = NoExc

C20_Witness ==
    /\ main_pc = "exit"
    /\ target = 2
    /\ deleted = << inbox[2].message_id >>
    /\ DeviceB.device_id \notin DOMAIN inbox[1].wrapped_keys
    /\ PassesChecks(2)

====
